---- MODULE Spec2Model ----
(***************************************************************************)
(* Model of src/src/ephemeris.rs: the two line-driven state machines       *)
(* EphemerisVectorParser and EphemerisOrbitalElementsParser.               *)
(*                                                                         *)
(* A line is a sequence of one-character strings.  The input iterator is a *)
(* fixed finite sequence of lines together with the number of lines that   *)
(* have been pulled from it.  One call of next() is a Call step followed   *)
(* by one step per loop iteration (one pulled line each) until the call    *)
(* returns Some(item), returns None, or panics in an unwrap().             *)
(***************************************************************************)
EXTENDS Integers, Sequences, FiniteSets, TLC

VARIABLES kind, input, pos, state, pc, ret, out, entry, earlier

vars == <<kind, input, pos, state, pc, ret, out, entry, earlier>>

(***************************************************************************)
(* Bounds of the model.                                                    *)
(***************************************************************************)
\* largest number of record blocks in a generated data section
MaxBlocks == 2

(***************************************************************************)
(* Characters, field text and the two primitives of crate::utilities.      *)
(***************************************************************************)
\* width of a value field: the 22 of every take_or_empty(line, 22)
FieldWidth == 22

Digits == <<"0", "1", "2", "3", "4", "5", "6", "7", "8", "9">>

IsDigit(c) == \E i \in 1..10 : Digits[i] = c

DigitValue(c) == (CHOOSE i \in 1..10 : Digits[i] = c) - 1

\* take_expecting(line, tag): Ok(rest of the line) when the line begins with
\* the tag, Err otherwise (the caller unwraps it)
take_expecting(line, tag) ==
    IF Len(line) >= Len(tag) /\ SubSeq(line, 1, Len(tag)) = tag
    THEN [ok |-> TRUE, rest |-> SubSeq(line, Len(tag) + 1, Len(line))]
    ELSE [ok |-> FALSE, rest |-> <<>>]

\* take_or_empty(line, n): the next n characters and the rest of the line;
\* a line shorter than n is taken whole and leaves the empty rest
take_or_empty(line, n) ==
    IF Len(line) >= n
    THEN [field |-> SubSeq(line, 1, n), rest |-> SubSeq(line, n + 1, Len(line))]
    ELSE [field |-> line, rest |-> <<>>]

\* str::trim: drop the leading and the trailing blanks
RECURSIVE TrimStart(_)
TrimStart(s) ==
    IF s # <<>> /\ Head(s) = " " THEN TrimStart(Tail(s)) ELSE s

RECURSIVE TrimEnd(_)
TrimEnd(s) ==
    IF s # <<>> /\ s[Len(s)] = " " THEN TrimEnd(SubSeq(s, 1, Len(s) - 1)) ELSE s

trim(s) == TrimEnd(TrimStart(s))

\* value of a non-empty string of digits
RECURSIVE DigitsValue(_)
DigitsValue(s) ==
    IF Len(s) = 1 THEN DigitValue(s[1])
    ELSE 10 * DigitsValue(SubSeq(s, 1, Len(s) - 1)) + DigitValue(s[Len(s)])

\* str::parse::<f32> on the literals of the model: an optional sign followed
\* by one or more digits.  Everything else over the model's alphabet (the
\* empty string, a lone sign, letters, "=", "$", an inner blank) is an Err.
parse_f32(s) ==
    LET body == IF s # <<>> /\ s[1] \in {"-", "+"} THEN Tail(s) ELSE s
        neg  == s # <<>> /\ s[1] = "-"
    IN  IF body # <<>> /\ \A i \in 1..Len(body) : IsDigit(body[i])
        THEN [ok |-> TRUE,
              val |-> IF neg THEN 0 - DigitsValue(body) ELSE DigitsValue(body)]
        ELSE [ok |-> FALSE, val |-> 0]

\* field.trim().parse::<f32>()
parse_field(field) == parse_f32(trim(field))

(***************************************************************************)
(* The text of a report, as the service prints it: a value is printed      *)
(* right-aligned in its 22 columns, directly after its 4-character tag.    *)
(***************************************************************************)
RECURSIVE NatText(_)
NatText(n) ==
    IF n < 10 THEN <<Digits[n + 1]>>
    ELSE NatText(n \div 10) \o <<Digits[(n % 10) + 1]>>

NumText(n) == IF n < 0 THEN <<"-">> \o NatText(0 - n) ELSE NatText(n)

RECURSIVE Blanks(_)
Blanks(n) == IF n <= 0 THEN <<>> ELSE <<" ">> \o Blanks(n - 1)

\* a text right-aligned in a field of FieldWidth columns
Field(text) == Blanks(FieldWidth - Len(text)) \o text

NumField(n) == Field(NumText(n))

\* three tagged fields on one line
Line3(t1, f1, t2, f2, t3, f3) == t1 \o f1 \o t2 \o f2 \o t3 \o f3

SOE == <<"$", "$", "S", "O", "E">>
EOE == <<"$", "$", "E", "O", "E">>

TagX  == <<" ", "X", " ", "=">>
TagY  == <<" ", "Y", " ", "=">>
TagZ  == <<" ", "Z", " ", "=">>
TagVX == <<" ", "V", "X", "=">>
TagVY == <<" ", "V", "Y", "=">>
TagVZ == <<" ", "V", "Z", "=">>
TagLT == <<" ", "L", "T", "=">>
TagRG == <<" ", "R", "G", "=">>
TagRR == <<" ", "R", "R", "=">>

TagEC == <<" ", "E", "C", "=">>
TagQR == <<" ", "Q", "R", "=">>
TagIN == <<" ", "I", "N", "=">>
TagOM == <<" ", "O", "M", "=">>
TagW  == <<" ", "W", " ", "=">>
TagTp == <<" ", "T", "p", "=">>
TagN  == <<" ", "N", " ", "=">>
TagMA == <<" ", "M", "A", "=">>
TagTA == <<" ", "T", "A", "=">>
TagA  == <<" ", "A", " ", "=">>
TagAD == <<" ", "A", "D", "=">>
TagPR == <<" ", "P", "R", "=">>

DateLine == <<"2", "4", "5", "9", " ", "=", " ", "A", ".", "D", ".">>

\* a field whose text is no number
TextField == Field(<<"n", ".", "a", ".">>)

\* the lines of a state-vector block after its date line
XLine(p) == Line3(TagX, NumField(p[1]), TagY, NumField(p[2]), TagZ, NumField(p[3]))
VLine(v) == Line3(TagVX, NumField(v[1]), TagVY, NumField(v[2]), TagVZ, NumField(v[3]))
LTLine   == Line3(TagLT, NumField(1), TagRG, NumField(2), TagRR, NumField(3))

\* the four lines of an orbital-elements block after its date line; e holds
\* the six kept values, d the texts of the six discarded fields
ECLine(e, d) == Line3(TagEC, NumField(e.eccentricity), TagQR, d.qr,
                      TagIN, NumField(e.inclination))
OMLine(e, d) == Line3(TagOM, NumField(e.longitude_of_ascending_node),
                      TagW, NumField(e.argument_of_perifocus), TagTp, d.tp)
MALine(e, d) == Line3(TagN, d.n, TagMA, NumField(e.mean_anomaly), TagTA, d.ta)
ALine(e, d)  == Line3(TagA, NumField(e.semi_major_axis), TagAD, d.ad, TagPR, d.pr)

(***************************************************************************)
(* The values and lines the inputs are built from.                         *)
(***************************************************************************)
V1 == [position |-> <<1, 2, 3>>,   velocity |-> <<-4, 5, 6>>]
V2 == [position |-> <<70, -8, 9>>, velocity |-> <<10, 11, -12>>]

VectorValues == {V1, V2}

E1 == [eccentricity |-> 1, inclination |-> 2, longitude_of_ascending_node |-> 3,
       argument_of_perifocus |-> 4, mean_anomaly |-> 5, semi_major_axis |-> 6]
E2 == [eccentricity |-> 0, inclination |-> -20, longitude_of_ascending_node |-> 30,
       argument_of_perifocus |-> 40, mean_anomaly |-> 50, semi_major_axis |-> 60]

ElementValues == {E1, E2}

\* numeric texts of the six discarded fields
D1 == [qr |-> NumField(7), tp |-> NumField(8), n |-> NumField(9),
       ta |-> NumField(10), ad |-> NumField(11), pr |-> NumField(12)]
D2 == [qr |-> NumField(71), tp |-> NumField(81), n |-> NumField(91),
       ta |-> NumField(-10), ad |-> NumField(-11), pr |-> NumField(-12)]

DiscardedNumeric == {D1, D2}

\* the discarded fields with one of them holding a text that is no number
DiscardedText ==
    { [D1 EXCEPT !.qr = TextField], [D1 EXCEPT !.tp = TextField],
      [D1 EXCEPT !.n = TextField],  [D1 EXCEPT !.ta = TextField],
      [D1 EXCEPT !.ad = TextField], [D1 EXCEPT !.pr = TextField] }

VectorBlock(v, a) == <<DateLine, XLine(v.position), VLine(v.velocity), a>>

ElementsBlock(e, d) == <<DateLine, ECLine(e, d), OMLine(e, d), MALine(e, d), ALine(e, d)>>

\* number of lines of a block, its date line included
BlockLen(k) == IF k = "vector" THEN 4 ELSE 5

\* the well-formed blocks: both value sets; a third line that is an
\* annotation, the text of the end marker or a position line (vector); both
\* texts of the discarded fields (orbital elements)
GoodBlocks(k) ==
    IF k = "vector"
    THEN {VectorBlock(V1, LTLine), VectorBlock(V2, EOE),
          VectorBlock(V1, XLine(V2.position))}
    ELSE {ElementsBlock(E1, D1), ElementsBlock(E2, D2), ElementsBlock(E1, D2)}

\* the block the faulty blocks are made from, and the block that stands
\* around a faulty block
BaseBlock(k) ==
    IF k = "vector" THEN VectorBlock(V1, LTLine) ELSE ElementsBlock(E1, D1)

OtherBlock(k) ==
    IF k = "vector" THEN VectorBlock(V2, LTLine) ELSE ElementsBlock(E2, D2)

\* lines that are wrong where a field line is expected: a wrong first tag,
\* a wrong later tag, a kept field that is no number, an end marker, a second
\* date line, a line cut short, an empty line
BadLines(k) ==
    IF k = "vector"
    THEN { Line3(TagY, NumField(2), TagZ, NumField(3), TagX, NumField(1)),
           Line3(TagX, NumField(1), TagY, NumField(2), TagVZ, NumField(3)),
           Line3(TagX, NumField(1), TagY, TextField, TagZ, NumField(3)),
           Line3(TagVX, NumField(1), TagVY, NumField(2), TagVZ, TextField),
           EOE, DateLine, TagX \o NumField(1), <<>> }
    ELSE { Line3(TagQR, NumField(7), TagEC, NumField(1), TagIN, NumField(2)),
           Line3(TagA, NumField(6), TagAD, NumField(11), TagTA, NumField(12)),
           Line3(TagEC, TextField, TagQR, NumField(7), TagIN, NumField(2)),
           Line3(TagA, TextField, TagAD, NumField(11), TagPR, NumField(12)),
           EOE, DateLine, TagOM \o NumField(3), <<>> }

\* one block with one of its field lines replaced by a bad line, or (orbital
\* elements) with a discarded field that is no number
FaultyBlocks(k) ==
    {[BaseBlock(k) EXCEPT ![i] = l] : i \in 2..(BlockLen(k) - 1), l \in BadLines(k)}
    \cup (IF k = "vector"
          THEN {}
          ELSE {[BaseBlock(k) EXCEPT ![5] = l] : l \in BadLines(k)}
               \cup {ElementsBlock(E1, d) : d \in DiscardedText})

\* the concatenations of n blocks of S
RECURSIVE Concats(_, _)
Concats(S, n) ==
    IF n = 0 THEN {<<>>} ELSE {b \o r : b \in S, r \in Concats(S, n - 1)}

GoodBodies(k) == UNION {Concats(GoodBlocks(k), n) : n \in 0..MaxBlocks}

\* lines that may stand before the start marker
Preambles(k) == {<<>>, <<DateLine>>, <<EOE>>, <<EOE, BaseBlock(k)[2]>>}

\* what may follow the data section: its end marker, and after it nothing,
\* a stray line, or a second complete data section
Endings(k) == {<<EOE>>, <<EOE, DateLine>>, <<EOE, SOE>> \o OtherBlock(k) \o <<EOE>>}

\* well-formed reports, with something before and after the data section
WholeInputs(k) ==
    {p \o <<SOE>> \o b \o e : p \in Preambles(k), b \in GoodBodies(k), e \in Endings(k)}

\* reports cut off anywhere
CutInputs(k) ==
    UNION { {SubSeq(w, 1, n) : n \in 0..Len(w)} :
              w \in {<<DateLine, SOE>> \o b \o <<EOE>> : b \in GoodBodies(k)} }

\* reports in which one block is faulty, among well-formed blocks
FaultyInputs(k) ==
    UNION { {<<SOE>> \o a \o f \o c \o <<EOE>> :
                a \in Concats({OtherBlock(k)}, ij[1]), f \in FaultyBlocks(k),
                c \in Concats({OtherBlock(k)}, ij[2])} :
            ij \in {x \in (0..MaxBlocks) \X (0..MaxBlocks) : x[1] + x[2] < MaxBlocks} }

\* reports without a start marker
NoStartInputs(k) ==
    LET L == {DateLine, EOE, BaseBlock(k)[2], BaseBlock(k)[3]} \cup BadLines(k)
    IN  {<<>>} \cup {<<a>> : a \in L} \cup {<<a, b>> : a \in L, b \in L}

\* well-formed reports with further date lines: two before the start marker
\* or none, and one or two more between the first block and the next
LabelledInputs(k) ==
    {p \o <<SOE>> \o BaseBlock(k) \o g \o c \o <<EOE>> :
        p \in {<<>>, <<DateLine, DateLine>>},
        g \in {<<DateLine>>, <<DateLine, DateLine>>},
        c \in Concats({OtherBlock(k)}, MaxBlocks - 1)}

\* reports with a faulty block and lines before the start marker
PrefacedInputs(k) ==
    {<<EOE, l>> \o <<SOE>> \o f \o OtherBlock(k) \o <<EOE>> :
        l \in {BaseBlock(k)[2], <<>>}, f \in FaultyBlocks(k)}

Inputs(k) ==
    WholeInputs(k) \cup CutInputs(k) \cup FaultyInputs(k) \cup NoStartInputs(k)
    \cup LabelledInputs(k) \cup PrefacedInputs(k)

(***************************************************************************)
(* Parser states (the two state enums) and emitted items.                  *)
(***************************************************************************)
WaitingForSoe      == [tag |-> "WaitingForSoe"]
WaitingForDate     == [tag |-> "WaitingForDate"]
WaitingForPosition == [tag |-> "WaitingForPosition"]
Position(p)        == [tag |-> "Position", position |-> p]
Complete(p, v)     == [tag |-> "Complete", position |-> p, velocity |-> v]
End                == [tag |-> "End"]

WaitingForEccentricityAndInclination == [tag |-> "WaitingForEccentricityAndInclination"]
EccentricityAndInclination(ec, in) ==
    [tag |-> "EccentricityAndInclination", eccentricity |-> ec, inclination |-> in]
AddedAscendingNodeAndPericfocus(ec, in, om, w) ==
    [tag |-> "AddedAscendingNodeAndPericfocus", eccentricity |-> ec, inclination |-> in,
     longitude_of_ascending_node |-> om, argument_of_perifocus |-> w]
AddedMeanAnomaly(ec, in, om, w, ma) ==
    [tag |-> "AddedMeanAnomaly", eccentricity |-> ec, inclination |-> in,
     longitude_of_ascending_node |-> om, argument_of_perifocus |-> w,
     mean_anomaly |-> ma]

EphemerisVectorItem(p, v) == [position |-> p, velocity |-> v]

EphemerisOrbitalElementsItem(ec, in, om, w, ma, a) ==
    [eccentricity |-> ec, inclination |-> in, longitude_of_ascending_node |-> om,
     argument_of_perifocus |-> w, mean_anomaly |-> ma, semi_major_axis |-> a]

\* the three take_expecting(..).unwrap() / take_or_empty(.., 22) pairs every
\* field-parsing arm starts with: ok is FALSE when an unwrap() meets an Err,
\* and expected is then the tag that unwrap() was waiting for
TakeFields(line, t1, t2, t3) ==
    LET e1 == take_expecting(line, t1)
        f1 == take_or_empty(e1.rest, FieldWidth)
        e2 == take_expecting(f1.rest, t2)
        f2 == take_or_empty(e2.rest, FieldWidth)
        e3 == take_expecting(f2.rest, t3)
        f3 == take_or_empty(e3.rest, FieldWidth)
    IN  IF ~e1.ok THEN [ok |-> FALSE, expected |-> t1, f |-> <<>>]
        ELSE IF ~e2.ok THEN [ok |-> FALSE, expected |-> t2, f |-> <<>>]
        ELSE IF ~e3.ok THEN [ok |-> FALSE, expected |-> t3, f |-> <<>>]
        ELSE [ok |-> TRUE, expected |-> <<>>, f |-> <<f1.field, f2.field, f3.field>>]

(***************************************************************************)
(* Init: parse(input) over one of the generated reports.                   *)
(*   pos  number of lines pulled from the input iterator so far            *)
(*   pc   "idle" between calls of next(), "loop" inside one                *)
(*   ret  how the last finished call of next() ended: res is "Some",       *)
(*        "None", or the error an unwrap() panicked with ("TagMismatch"    *)
(*        with the expected tag, "NumericFormat")                          *)
(*   out  the items the calls have returned so far, in order               *)
(*   entry    the number of lines pulled and self.state when the running   *)
(*            (or the last) call of next() was entered                     *)
(*   earlier  the items collected from an earlier parser, when this one    *)
(*            was constructed by ParseAgain to compare the two             *)
(***************************************************************************)
Outcome(r) == [res |-> r, expected |-> <<>>]

TagMismatch(t) == [res |-> "TagMismatch", expected |-> t]

Init ==
    /\ kind \in {"vector", "orbital"}
    /\ input \in Inputs(kind)
    /\ pos = 0
    /\ state = WaitingForSoe
    /\ pc = "idle"
    /\ ret = Outcome("NotCalled")
    /\ out = <<>>
    /\ entry = [pos |-> 0, state |-> WaitingForSoe]
    /\ earlier = [run |-> "none", out |-> <<>>]

\* the consumer calls next(); it may do so after any earlier outcome, a
\* caught panic included
Call ==
    /\ pc = "idle"
    /\ pc' = "loop"
    /\ entry' = [pos |-> pos, state |-> state]
    /\ UNCHANGED <<kind, input, earlier, pos, state, ret, out>>

\* mutant: at the end of the input a gathered position and velocity is
\* flushed as an item
Drained_Flushes ==
    /\ pc = "loop"
    /\ pos = Len(input)
    /\ pc' = "idle"
    /\ IF state.tag = "Complete"
       THEN /\ ret' = Outcome("Some")
            /\ out' = Append(out, [position |-> state.position,
                                   velocity |-> state.velocity])
       ELSE /\ ret' = Outcome("None")
            /\ out' = out
    /\ UNCHANGED <<kind, input, earlier, entry, pos, state>>

\* mutant: at the end of the input the parser goes to End
Drained_Ends ==
    /\ pc = "loop"
    /\ pos = Len(input)
    /\ pc' = "idle"
    /\ ret' = Outcome("None")
    /\ state' = End
    /\ UNCHANGED <<kind, input, earlier, entry, pos, out>>

\* mutant: at the end of the input the loop goes round again
Drained_Loops ==
    /\ pc = "loop"
    /\ pos = Len(input)
    /\ UNCHANGED vars

\* self.input.next() is None: the call returns None
Drained ==
    /\ pc = "loop"
    /\ pos = Len(input)
    /\ pc' = "idle"
    /\ ret' = Outcome("None")
    /\ UNCHANGED <<kind, input, earlier, entry, pos, state, out>>

\* a loop iteration of the parser k that pulls a line in the state tagged t
Pulls(k, t) ==
    /\ kind = k
    /\ pc = "loop"
    /\ pos < Len(input)
    /\ state.tag = t
    /\ pos' = pos + 1

\* the iteration ends without a return: the loop goes on
Continue(s) ==
    /\ state' = s
    /\ UNCHANGED <<kind, input, earlier, entry, pc, ret, out>>

\* an unwrap() panics: the call ends, self.state is as it is at that point
Panic(s, why) ==
    /\ state' = s
    /\ pc' = "idle"
    /\ ret' = why
    /\ UNCHANGED <<kind, input, earlier, entry, out>>

\* return Some(item)
ReturnSome(s, item) ==
    /\ state' = s
    /\ pc' = "idle"
    /\ ret' = Outcome("Some")
    /\ out' = Append(out, item)
    /\ UNCHANGED <<kind, input, earlier, entry>>

\* return None
ReturnNone ==
    /\ pc' = "idle"
    /\ ret' = Outcome("None")
    /\ UNCHANGED <<kind, input, earlier, entry, state, out>>

(***************************************************************************)
(* EphemerisVectorParser::next, one action per match arm.                  *)
(***************************************************************************)
\* mutant: the arm compares the line with the wrong marker
VectorWaitingForSoe_WrongMarker ==
    /\ Pulls("vector", "WaitingForSoe")
    /\ Continue(IF input[pos + 1] = EOE THEN WaitingForDate ELSE state)

\* mutant: a line before the start marker that is no marker ends the call
VectorWaitingForSoe_Strict ==
    /\ Pulls("vector", "WaitingForSoe")
    /\ IF input[pos + 1] \in {SOE, EOE}
       THEN Continue(IF input[pos + 1] = SOE THEN WaitingForDate ELSE state)
       ELSE ReturnNone

VectorWaitingForSoe ==
    /\ Pulls("vector", "WaitingForSoe")
    /\ Continue(IF input[pos + 1] = SOE THEN WaitingForDate ELSE state)

\* mutant: the end marker is taken for a date line
VectorWaitingForDate_NoEnd ==
    /\ Pulls("vector", "WaitingForDate")
    /\ Continue(WaitingForPosition)

VectorWaitingForDate ==
    /\ Pulls("vector", "WaitingForDate")
    /\ Continue(IF input[pos + 1] = EOE THEN End ELSE WaitingForPosition)

VectorWaitingForPosition ==
    /\ Pulls("vector", "WaitingForPosition")
    /\ LET t == TakeFields(input[pos + 1], TagX, TagY, TagZ)
           x == parse_field(t.f[1])
           y == parse_field(t.f[2])
           z == parse_field(t.f[3])
       IN  IF ~t.ok THEN Panic(state, TagMismatch(t.expected))
           ELSE IF ~(x.ok /\ y.ok /\ z.ok) THEN Panic(state, Outcome("NumericFormat"))
           ELSE Continue(Position(<<x.val, y.val, z.val>>))

\* mutant: vx and vy land in each other's slot
VectorPosition_Swapped ==
    /\ Pulls("vector", "Position")
    /\ LET t  == TakeFields(input[pos + 1], TagVX, TagVY, TagVZ)
           vx == parse_field(t.f[1])
           vy == parse_field(t.f[2])
           vz == parse_field(t.f[3])
       IN  IF ~t.ok THEN Panic(state, TagMismatch(t.expected))
           ELSE IF ~(vx.ok /\ vy.ok /\ vz.ok) THEN Panic(state, Outcome("NumericFormat"))
           ELSE Continue(Complete(state.position, <<vy.val, vx.val, vz.val>>))

\* mutant: the item is returned as soon as the velocity has been parsed
VectorPosition_ReturnsItem ==
    /\ Pulls("vector", "Position")
    /\ LET t  == TakeFields(input[pos + 1], TagVX, TagVY, TagVZ)
           vx == parse_field(t.f[1])
           vy == parse_field(t.f[2])
           vz == parse_field(t.f[3])
       IN  IF ~t.ok THEN Panic(state, TagMismatch(t.expected))
           ELSE IF ~(vx.ok /\ vy.ok /\ vz.ok) THEN Panic(state, Outcome("NumericFormat"))
           ELSE ReturnSome(WaitingForDate,
                           EphemerisVectorItem(state.position, <<vx.val, vy.val, vz.val>>))

VectorPosition ==
    /\ Pulls("vector", "Position")
    /\ LET t  == TakeFields(input[pos + 1], TagVX, TagVY, TagVZ)
           vx == parse_field(t.f[1])
           vy == parse_field(t.f[2])
           vz == parse_field(t.f[3])
       IN  IF ~t.ok THEN Panic(state, TagMismatch(t.expected))
           ELSE IF ~(vx.ok /\ vy.ok /\ vz.ok) THEN Panic(state, Outcome("NumericFormat"))
           ELSE Continue(Complete(state.position, <<vx.val, vy.val, vz.val>>))

\* mutant: after an item the parser looks for a start marker again
VectorComplete_Restarts ==
    /\ Pulls("vector", "Complete")
    /\ ReturnSome(WaitingForSoe, EphemerisVectorItem(state.position, state.velocity))

\* the third line is pulled and not looked at
VectorComplete ==
    /\ Pulls("vector", "Complete")
    /\ ReturnSome(WaitingForDate, EphemerisVectorItem(state.position, state.velocity))

\* a line has been pulled before the match reaches this arm
VectorEnd ==
    /\ Pulls("vector", "End")
    /\ ReturnNone

(***************************************************************************)
(* EphemerisOrbitalElementsParser::next, one action per match arm.         *)
(***************************************************************************)
\* mutant: any line that begins with "$$" starts the data section
OrbitalWaitingForSoe_AnyMarker ==
    /\ Pulls("orbital", "WaitingForSoe")
    /\ Continue(IF Len(input[pos + 1]) >= 2 /\ SubSeq(input[pos + 1], 1, 2) = <<"$", "$">>
                THEN WaitingForDate ELSE state)

\* mutant: an end marker before the start marker ends the data section
OrbitalWaitingForSoe_EndsEarly ==
    /\ Pulls("orbital", "WaitingForSoe")
    /\ Continue(IF input[pos + 1] = SOE THEN WaitingForDate
                ELSE IF input[pos + 1] = EOE THEN End ELSE state)

OrbitalWaitingForSoe ==
    /\ Pulls("orbital", "WaitingForSoe")
    /\ Continue(IF input[pos + 1] = SOE THEN WaitingForDate ELSE state)

\* mutant: the end marker is taken for a date line
OrbitalWaitingForDate_NoEnd ==
    /\ Pulls("orbital", "WaitingForDate")
    /\ Continue(WaitingForEccentricityAndInclination)

OrbitalWaitingForDate ==
    /\ Pulls("orbital", "WaitingForDate")
    /\ Continue(IF input[pos + 1] = EOE THEN End
                ELSE WaitingForEccentricityAndInclination)

\* mutant: the inclination is parsed from the second field of the line
OrbitalWaitingForEccentricityAndInclination_SecondField ==
    /\ Pulls("orbital", "WaitingForEccentricityAndInclination")
    /\ LET t  == TakeFields(input[pos + 1], TagEC, TagQR, TagIN)
           ec == parse_field(t.f[1])
           in == parse_field(t.f[2])
       IN  IF ~t.ok THEN Panic(state, TagMismatch(t.expected))
           ELSE IF ~(ec.ok /\ in.ok) THEN Panic(state, Outcome("NumericFormat"))
           ELSE Continue(EccentricityAndInclination(ec.val, in.val))

OrbitalWaitingForEccentricityAndInclination ==
    /\ Pulls("orbital", "WaitingForEccentricityAndInclination")
    /\ LET t  == TakeFields(input[pos + 1], TagEC, TagQR, TagIN)
           ec == parse_field(t.f[1])
           in == parse_field(t.f[3])
       IN  IF ~t.ok THEN Panic(state, TagMismatch(t.expected))
           ELSE IF ~(ec.ok /\ in.ok) THEN Panic(state, Outcome("NumericFormat"))
           ELSE Continue(EccentricityAndInclination(ec.val, in.val))

OrbitalEccentricityAndInclination ==
    /\ Pulls("orbital", "EccentricityAndInclination")
    /\ LET t  == TakeFields(input[pos + 1], TagOM, TagW, TagTp)
           om == parse_field(t.f[1])
           w  == parse_field(t.f[2])
       IN  IF ~t.ok THEN Panic(state, TagMismatch(t.expected))
           ELSE IF ~(om.ok /\ w.ok) THEN Panic(state, Outcome("NumericFormat"))
           ELSE Continue(AddedAscendingNodeAndPericfocus(
                    state.eccentricity, state.inclination, om.val, w.val))

OrbitalAddedAscendingNodeAndPericfocus ==
    /\ Pulls("orbital", "AddedAscendingNodeAndPericfocus")
    /\ LET t  == TakeFields(input[pos + 1], TagN, TagMA, TagTA)
           ma == parse_field(t.f[2])
       IN  IF ~t.ok THEN Panic(state, TagMismatch(t.expected))
           ELSE IF ~ma.ok THEN Panic(state, Outcome("NumericFormat"))
           ELSE Continue(AddedMeanAnomaly(
                    state.eccentricity, state.inclination,
                    state.longitude_of_ascending_node, state.argument_of_perifocus,
                    ma.val))

\* self.state = WaitingForDate is assigned before the item is built, so the
\* unwrap() of the semi-major axis panics with the state already reset
OrbitalAddedMeanAnomaly ==
    /\ Pulls("orbital", "AddedMeanAnomaly")
    /\ LET t == TakeFields(input[pos + 1], TagA, TagAD, TagPR)
           a == parse_field(t.f[1])
       IN  IF ~t.ok THEN Panic(state, TagMismatch(t.expected))
           ELSE IF ~a.ok THEN Panic(WaitingForDate, Outcome("NumericFormat"))
           ELSE ReturnSome(WaitingForDate,
                    EphemerisOrbitalElementsItem(
                        state.eccentricity, state.inclination,
                        state.longitude_of_ascending_node, state.argument_of_perifocus,
                        state.mean_anomaly, a.val))

\* mutant: behind the end marker the parser looks for a start marker again
OrbitalEnd_Restarts ==
    /\ Pulls("orbital", "End")
    /\ state' = (IF input[pos + 1] = SOE THEN WaitingForDate ELSE WaitingForSoe)
    /\ pc' = "idle"
    /\ ret' = Outcome("None")
    /\ UNCHANGED <<kind, input, earlier, entry, out>>

OrbitalEnd ==
    /\ Pulls("orbital", "End")
    /\ ReturnNone

Next ==
    \/ Call
    \/ Drained
    \/ VectorWaitingForSoe
    \/ VectorWaitingForDate
    \/ VectorWaitingForPosition
    \/ VectorPosition
    \/ VectorComplete
    \/ VectorEnd
    \/ OrbitalWaitingForSoe
    \/ OrbitalWaitingForDate
    \/ OrbitalWaitingForEccentricityAndInclination
    \/ OrbitalEccentricityAndInclination
    \/ OrbitalAddedAscendingNodeAndPericfocus
    \/ OrbitalAddedMeanAnomaly
    \/ OrbitalEnd

Spec == Init /\ [][Next]_vars

TypeOK ==
    /\ kind \in {"vector", "orbital"}
    /\ pos \in 0..Len(input)
    /\ pc \in {"idle", "loop"}
    /\ ret.res \in {"NotCalled", "Some", "None", "TagMismatch", "NumericFormat"}
    /\ Len(out) <= pos

(***************************************************************************)
(* What a report is, read off the input alone.                             *)
(***************************************************************************)
\* index of the first start marker, 0 when there is none
FirstSoe(inp) ==
    IF \E i \in 1..Len(inp) : inp[i] = SOE
    THEN CHOOSE i \in 1..Len(inp) : inp[i] = SOE /\ \A j \in 1..(i - 1) : inp[j] # SOE
    ELSE 0

\* the j-th group of BlockLen(k) lines after the start marker
BlockAt(k, inp, j) ==
    SubSeq(inp, FirstSoe(inp) + (j - 1) * BlockLen(k) + 1, FirstSoe(inp) + j * BlockLen(k))

\* number of leading lines of a block that carry its date and its fields
FieldLines(k) == IF k = "vector" THEN 3 ELSE 5

\* the date and field lines of the blocks the values can be printed as
PrintedBlocks(k) ==
    IF k = "vector"
    THEN {SubSeq(VectorBlock(v, <<>>), 1, 3) : v \in VectorValues}
    ELSE {ElementsBlock(e, d) : e \in ElementValues, d \in DiscardedNumeric}

\* b is a record block: a date line and the field lines of some values, and
\* (vector) any third line
IsBlock(k, b) ==
    /\ Len(b) = BlockLen(k)
    /\ SubSeq(b, 1, FieldLines(k)) \in PrintedBlocks(k)

\* p is the beginning of a record block, cut off before its last line
IsBlockStart(k, p) ==
    /\ Len(p) < BlockLen(k)
    /\ \E b \in PrintedBlocks(k) : p = SubSeq(b, 1, Len(p))

\* the item whose values the block b was printed from
ItemOf(k, b) ==
    IF k = "vector"
    THEN CHOOSE v \in VectorValues : b[2] = XLine(v.position) /\ b[3] = VLine(v.velocity)
    ELSE CHOOSE e \in ElementValues : \E d \in DiscardedNumeric : b = ElementsBlock(e, d)

\* number of record blocks of a data section that ends with the last line
NumBlocks(k, inp) == (Len(inp) - FirstSoe(inp) - 1) \div BlockLen(k)

\* lines without a start marker, the start marker, n >= 0 record blocks,
\* the end marker
WellFormed(k, inp) ==
    /\ FirstSoe(inp) > 0
    /\ Len(inp) > FirstSoe(inp)
    /\ inp[Len(inp)] = EOE
    /\ (Len(inp) - FirstSoe(inp) - 1) % BlockLen(k) = 0
    /\ \A j \in 1..NumBlocks(k, inp) : IsBlock(k, BlockAt(k, inp, j))

\* the line begins with the tag
BeginsWith(line, tag) == Len(line) >= Len(tag) /\ SubSeq(line, 1, Len(tag)) = tag

\* the columns lo..hi of a line, as far as the line reaches
Columns(line, lo, hi) ==
    IF lo > Len(line) THEN <<>>
    ELSE SubSeq(line, lo, IF hi > Len(line) THEN Len(line) ELSE hi)

\* the i-th of the three tags and of the three fields of a field line
TagColumn(line, i) ==
    Columns(line, (i - 1) * (4 + FieldWidth) + 1, (i - 1) * (4 + FieldWidth) + 4)

Column(line, i) ==
    Columns(line, (i - 1) * (4 + FieldWidth) + 5, i * (4 + FieldWidth))

\* the tags of the line the orbital-element parser waits for in state t
ElementTags(t) ==
    CASE t = "WaitingForEccentricityAndInclination" -> <<TagEC, TagQR, TagIN>>
      [] t = "EccentricityAndInclination"           -> <<TagOM, TagW, TagTp>>
      [] t = "AddedAscendingNodeAndPericfocus"      -> <<TagN, TagMA, TagTA>>
      [] t = "AddedMeanAnomaly"                     -> <<TagA, TagAD, TagPR>>

\* the last call of next() has returned None
Exhausted == pc = "idle" /\ ret.res = "None"

\* the last call of next() has panicked
Failed == ret.res \in {"TagMismatch", "NumericFormat"}

(***************************************************************************)
(* C1: for every well-formed input (any lines without a start marker, then *)
(* "$$SOE", then n >= 0 record blocks, then "$$EOE"), iterating either     *)
(* parser until next() returns None emits exactly n records.               *)
(***************************************************************************)
C1_RecordCount ==
    (WellFormed(kind, input) /\ Exhausted) => Len(out) = NumBlocks(kind, input)

\* an orbital-elements report of two blocks behind a preamble, exhausted
C1_Witness ==
    /\ kind = "orbital"
    /\ WellFormed(kind, input)
    /\ FirstSoe(input) > 1
    /\ Exhausted
    /\ NumBlocks(kind, input) = 2
    /\ Len(out) = 2

(***************************************************************************)
(* C2: on a well-formed input the k-th record the vector parser has        *)
(* emitted carries X/Y/Z of the k-th block's position line and VX/VY/VZ of *)
(* the same block's velocity line, whatever the block's third line is.     *)
(***************************************************************************)
C2_BlockValues ==
    (kind = "vector" /\ WellFormed(kind, input)) =>
        \A i \in 1..Len(out) :
            /\ i <= NumBlocks(kind, input)
            /\ out[i] = ItemOf(kind, BlockAt(kind, input, i))

\* two blocks of different values, the first annotated with the text of the
\* end marker, the second with a position line: both emitted
C2_Witness ==
    /\ kind = "vector"
    /\ WellFormed(kind, input)
    /\ Len(out) = 2
    /\ out[1] # out[2]
    /\ BlockAt(kind, input, 1)[4] = EOE
    /\ BlockAt(kind, input, 2)[4] = XLine(V2.position)

(***************************************************************************)
(* C3: a field-tag mismatch in the vector parser is fatal for the whole    *)
(* sequence: a line pulled in WaitingForPosition that does not begin with  *)
(* " X =" makes the call fail with a tag mismatch naming " X =", and once  *)
(* a call has failed so, no record is emitted any more, whatever lines     *)
(* follow and however often next() is called.                               *)
(***************************************************************************)
C3_FatalTagMismatch ==
    [][kind = "vector" =>
        /\ (/\ pc = "loop"
            /\ state = WaitingForPosition
            /\ pos' = pos + 1
            /\ ~BeginsWith(input[pos + 1], TagX))
           => (ret' = TagMismatch(TagX) /\ out' = out)
        /\ (ret = TagMismatch(TagX)) => (out' = out)]_vars

(***************************************************************************)
(* C4: in the orbital-element parser a tag mismatch or a field that is no  *)
(* number, on any of the twelve fields of a block's four lines, makes the  *)
(* call fail, and once a call has failed no record is emitted any more.    *)
(***************************************************************************)
C4_FatalElementsError ==
    [][kind = "orbital" =>
        /\ (/\ pc = "loop"
            /\ state.tag \in {"WaitingForEccentricityAndInclination",
                              "EccentricityAndInclination",
                              "AddedAscendingNodeAndPericfocus", "AddedMeanAnomaly"}
            /\ pos' = pos + 1
            /\ \E i \in 1..3 :
                  \/ TagColumn(input[pos + 1], i) # ElementTags(state.tag)[i]
                  \/ ~parse_field(Column(input[pos + 1], i)).ok)
           => (ret'.res \in {"TagMismatch", "NumericFormat"} /\ out' = out)
        /\ Failed => (out' = out)]_vars

(***************************************************************************)
(* C5 as stated: in the vector parser, once a line equal to "$$EOE" has    *)
(* been pulled after the start marker, in whichever state, no record is    *)
(* emitted from then on.                                                   *)
(***************************************************************************)
C5_EndMarkerAnywhere ==
    [][(/\ kind = "vector"
        /\ FirstSoe(input) > 0
        /\ \E i \in (FirstSoe(input) + 1)..pos : input[i] = EOE)
       => (out' = out)]_vars

(***************************************************************************)
(* C5 amended: in the vector parser a line equal to "$$EOE" that is pulled *)
(* in WaitingForDate moves the parser to End, and from End on the state    *)
(* stays End and no record is emitted; a line equal to "$$EOE" that is     *)
(* pulled in Complete is the block's third line and completes its record.  *)
(***************************************************************************)
C5_EndMarkerTerminates ==
    [][kind = "vector" =>
        /\ (state = WaitingForDate /\ pos' = pos + 1 /\ input[pos + 1] = EOE)
           => (state' = End)
        /\ (state = End) => (state' = End /\ out' = out)
        /\ (state.tag = "Complete" /\ pos' = pos + 1 /\ input[pos + 1] = EOE)
           => (Len(out') = Len(out) + 1 /\ state' = WaitingForDate)]_vars

\* a block whose third line is the text of the end marker has been emitted,
\* the data section has ended, and a line behind it has been pulled
C5_Witness ==
    /\ kind = "vector"
    /\ FirstSoe(input) > 0
    /\ Len(input) >= FirstSoe(input) + 6
    /\ BlockAt(kind, input, 1)[4] = EOE
    /\ Len(out) = 1
    /\ state = End
    /\ input[pos] # EOE
    /\ Exhausted

(***************************************************************************)
(* C6: once next() has returned None, every later next() on the same       *)
(* parser returns None and emits nothing, also when the rest of the input  *)
(* holds another "$$SOE" ... "$$EOE" section of well-formed blocks.        *)
(***************************************************************************)
C6_NoRestart ==
    [][(ret.res = "None") => (ret'.res = "None" /\ out' = out)]_vars

\* None has been returned with a whole second data section still unpulled
C6_Witness ==
    /\ kind = "orbital"
    /\ Exhausted
    /\ state = End
    /\ pos > 1
    /\ input[pos - 1] = EOE
    /\ input[pos] = SOE
    /\ Len(input) = pos + BlockLen(kind) + 1
    /\ IsBlock(kind, SubSeq(input, pos + 1, pos + BlockLen(kind)))
    /\ input[Len(input)] = EOE

(***************************************************************************)
(* C7: once a parser is in End (Finished), a call of next() pulls no line: *)
(* the input position stays as it is.                                      *)
(***************************************************************************)
C7_FinishedPullsNothing ==
    [][(state = End) => (pos' = pos)]_vars

(***************************************************************************)
(* C8: no torn record.  On a report that is cut off inside or between      *)
(* blocks (no end marker), the records emitted are at every moment exactly *)
(* those of the blocks whose lines have all been pulled, no call fails,    *)
(* and the fields gathered for the unfinished block are never emitted.     *)
(***************************************************************************)
\* a start marker, whole record blocks, and the beginning of one more
CutOff(k, inp) ==
    LET s    == FirstSoe(inp)
        full == (Len(inp) - s) \div BlockLen(k)
    IN  /\ s > 0
        /\ \A j \in 1..full : IsBlock(k, BlockAt(k, inp, j))
        /\ IsBlockStart(k, SubSeq(inp, s + full * BlockLen(k) + 1, Len(inp)))

\* number of blocks all of whose lines have been pulled
PulledBlocks ==
    IF pos <= FirstSoe(input) THEN 0 ELSE (pos - FirstSoe(input)) \div BlockLen(kind)

C8_NoTornRecord ==
    CutOff(kind, input) =>
        /\ ~Failed
        /\ Len(out) = PulledBlocks
        /\ \A i \in 1..Len(out) : out[i] = ItemOf(kind, BlockAt(kind, input, i))

\* the input ended behind the velocity line of the second block: one record
\* out, position and velocity of the second block held back for good
C8_Witness ==
    /\ kind = "vector"
    /\ CutOff(kind, input)
    /\ Exhausted
    /\ state.tag = "Complete"
    /\ Len(out) = 1
    /\ state.position # out[1].position

(***************************************************************************)
(* C9: for both parsers an input whose first "$$SOE" is directly followed  *)
(* by "$$EOE" yields no record and no failure, and the parser is in End    *)
(* when next() has returned None.                                          *)
(***************************************************************************)
ImmediateEnd(inp) ==
    /\ FirstSoe(inp) > 0
    /\ FirstSoe(inp) < Len(inp)
    /\ inp[FirstSoe(inp) + 1] = EOE

C9_EmptySection ==
    ImmediateEnd(input) =>
        /\ out = <<>>
        /\ ~Failed
        /\ Exhausted => state = End

\* the empty section stands behind a preamble and before a second section
C9_Witness ==
    /\ kind = "orbital"
    /\ ImmediateEnd(input)
    /\ FirstSoe(input) > 1
    /\ Len(input) > FirstSoe(input) + BlockLen(kind)
    /\ pos = Len(input)
    /\ Exhausted
    /\ state = End

(***************************************************************************)
(* C10: for both parsers an input without a line equal to "$$SOE" yields   *)
(* no record and no failure, whatever its lines are, and the state is      *)
(* WaitingForSoe in every reachable state.                                 *)
(***************************************************************************)
C10_NoStartMarker ==
    (FirstSoe(input) = 0) =>
        /\ state = WaitingForSoe
        /\ out = <<>>
        /\ ret.res \in {"NotCalled", "None"}

\* an end marker and a malformed field line, both pulled, None returned
C10_Witness ==
    /\ FirstSoe(input) = 0
    /\ Len(input) = 2
    /\ input[1] = EOE
    /\ input[2] \in BadLines(kind) \ {EOE, DateLine, <<>>}
    /\ pos = 2
    /\ Exhausted


(***************************************************************************)
(* Reports with further date lines.                                        *)
(***************************************************************************)
\* the lines of inp from the i-th on, without the date lines that stand
\* before the start marker and without a date line that is followed by
\* another date line
RECURSIVE WithoutLabels(_, _)
WithoutLabels(inp, i) ==
    IF i > Len(inp) THEN <<>>
    ELSE IF /\ inp[i] = DateLine
            /\ \/ i < FirstSoe(inp)
               \/ (i < Len(inp) /\ inp[i + 1] = DateLine)
         THEN WithoutLabels(inp, i + 1)
         ELSE <<inp[i]>> \o WithoutLabels(inp, i + 1)

Unlabelled(inp) == WithoutLabels(inp, 1)

\* the items of the blocks of a well-formed report
Items(k, inp) == [i \in 1..NumBlocks(k, inp) |-> ItemOf(k, BlockAt(k, inp, i))]

\* the state in which the first field line of a block is awaited, and the
\* tag that line begins with
FirstFieldState(k) ==
    IF k = "vector" THEN WaitingForPosition ELSE WaitingForEccentricityAndInclination

FirstTag(k) == IF k = "vector" THEN TagX ELSE TagEC

(***************************************************************************)
(* C11 as stated: a report that is well-formed once the date lines before  *)
(* the start marker and the surplus date lines between blocks are taken    *)
(* out causes no error, and its records are those of the report without    *)
(* these lines.                                                            *)
(***************************************************************************)
C11_LabelLinesDiscarded ==
    WellFormed(kind, Unlabelled(input)) =>
        /\ ~Failed
        /\ Exhausted => out = Items(kind, Unlabelled(input))

(***************************************************************************)
(* C11 as the parsers have it: a line that is neither marker is pulled     *)
(* without an error, without an item and without ending the call where it  *)
(* stands before the start marker (the state stays) and where it is the    *)
(* one date line of a block (the first field line is awaited next); a      *)
(* date line pulled where the first field line is awaited fails the call   *)
(* with a tag mismatch that names the first tag.                           *)
(***************************************************************************)
C11_OneDateLine ==
    [][(pc = "loop" /\ pos' = pos + 1) =>
        LET line == input[pos + 1]
            silent == out' = out /\ pc' = "loop" /\ ret' = ret
        IN  /\ (state = WaitingForSoe /\ line \notin {SOE, EOE}) =>
                    (silent /\ state' = state)
            /\ (state = WaitingForDate /\ line \notin {SOE, EOE}) =>
                    (silent /\ state' = FirstFieldState(kind))
            /\ (state = FirstFieldState(kind) /\ line = DateLine) =>
                    /\ ret' = TagMismatch(FirstTag(kind))
                    /\ pc' = "idle"
                    /\ out' = out]_vars

\* two date lines before the start marker were passed over, the first
\* block was emitted, and the second of two date lines behind it has just
\* failed the position tag
C11_Witness ==
    /\ kind = "vector"
    /\ FirstSoe(input) = 3
    /\ input[1] = DateLine
    /\ WellFormed(kind, Unlabelled(input))
    /\ Len(out) = 1
    /\ pos > 1
    /\ input[pos] = DateLine
    /\ input[pos - 1] = DateLine
    /\ ret = TagMismatch(TagX)

(***************************************************************************)
(* Two parsers over related reports.  When the first parser is exhausted,  *)
(* a second one is constructed by parse() over a report derived from the   *)
(* first report; the items of the first are kept in earlier.out.           *)
(***************************************************************************)
\* the fields of the r-th field line of an orbital-elements block that
\* next() slices off and drops: QR; Tp; N and TA; AD and PR
DiscardedFields(r) ==
    CASE r = 1 -> {2}
      [] r = 2 -> {3}
      [] r = 3 -> {1, 3}
      [] r = 4 -> {2, 3}
      [] OTHER -> {}

\* by how much a discarded value is changed
Deltas == {1, -1000}

\* the r-th field line of a block with its discarded values changed by delta
VaryLine(line, r, delta) ==
    LET f(i) == IF i \in DiscardedFields(r)
                THEN NumField(parse_field(Column(line, i)).val + delta)
                ELSE Column(line, i)
    IN  IF DiscardedFields(r) = {} THEN line
        ELSE Line3(TagColumn(line, 1), f(1), TagColumn(line, 2), f(2),
                   TagColumn(line, 3), f(3))

\* a well-formed orbital-elements report with every discarded value changed
VaryDiscarded(inp, delta) ==
    [i \in 1..Len(inp) |->
        IF i > FirstSoe(inp) /\ i < Len(inp)
        THEN VaryLine(inp[i], (i - FirstSoe(inp) - 1) % BlockLen("orbital"), delta)
        ELSE inp[i]]

\* the report from its first start marker on
FromStartMarker(inp) == SubSeq(inp, FirstSoe(inp), Len(inp))

\* parse(inp) after the first parser has returned None
ParseAgain(inp, how) ==
    /\ pc = "idle"
    /\ ret.res = "None"
    /\ earlier.run = "none"
    /\ input' = inp
    /\ pos' = 0
    /\ state' = WaitingForSoe
    /\ pc' = "idle"
    /\ ret' = Outcome("NotCalled")
    /\ out' = <<>>
    /\ entry' = [pos |-> 0, state |-> WaitingForSoe]
    /\ earlier' = [run |-> how, out |-> out]
    /\ UNCHANGED kind

\* the second parser reads the report with other discarded values
ParseVaried ==
    /\ kind = "orbital"
    /\ WellFormed(kind, input)
    /\ \E delta \in Deltas : ParseAgain(VaryDiscarded(input, delta), "discarded")

\* the second parser reads the report without the lines before the start
\* marker
ParseStripped ==
    /\ FirstSoe(input) > 1
    /\ ParseAgain(FromStartMarker(input), "preamble")

NextPair ==
    \/ Next
    \/ ParseVaried
    \/ ParseStripped

SpecPair == Init /\ [][NextPair]_vars

(***************************************************************************)
(* C12: of two well-formed orbital-elements reports that differ only in    *)
(* the values of the discarded fields QR, Tp, N, TA, AD and PR, iterated   *)
(* until None, the second yields the same items as the first: as many, and *)
(* the same six kept values in each.                                       *)
(***************************************************************************)
C12_DiscardedFieldsIdle ==
    (earlier.run = "discarded" /\ Exhausted) => out = earlier.out

\* two blocks were emitted from the first report and again from the report
\* whose QR reads 8 where the first had 7
C12_Witness ==
    /\ earlier.run = "discarded"
    /\ Exhausted
    /\ Len(earlier.out) = 2
    /\ out = earlier.out
    /\ Column(input[FirstSoe(input) + 2], 2) = NumField(8)

(***************************************************************************)
(* Where the values of an orbital-elements record stand in the report.     *)
(***************************************************************************)
\* the i-th field of the line is tagged tag and prints the value v
Prints(line, i, tag, v) == TagColumn(line, i) = tag /\ Column(line, i) = NumField(v)

\* the first n of the four field lines that begin with line p of the report
\* print the values of f that come from them: EC and IN; OM and W; MA; A
HeldFrom(inp, p, n, f) ==
    /\ p >= 1
    /\ p + n - 1 <= Len(inp)
    /\ n >= 1 => /\ Prints(inp[p], 1, TagEC, f.eccentricity)
                 /\ Prints(inp[p], 3, TagIN, f.inclination)
    /\ n >= 2 => /\ Prints(inp[p + 1], 1, TagOM, f.longitude_of_ascending_node)
                 /\ Prints(inp[p + 1], 2, TagW, f.argument_of_perifocus)
    /\ n >= 3 => Prints(inp[p + 2], 2, TagMA, f.mean_anomaly)
    /\ n >= 4 => Prints(inp[p + 3], 1, TagA, f.semi_major_axis)

\* number of field lines whose values a state of the orbital-elements
\* parser holds
LinesHeld(s) ==
    CASE s.tag = "EccentricityAndInclination"      -> 1
      [] s.tag = "AddedAscendingNodeAndPericfocus" -> 2
      [] s.tag = "AddedMeanAnomaly"                -> 3
      [] OTHER                                     -> 0

(***************************************************************************)
(* C13: every record the orbital-elements parser has emitted takes EC and  *)
(* IN, OM and W, MA, and A from the four consecutive field lines of one    *)
(* block of the report, and the fields a state holds (at most five) are    *)
(* those of the first lines of one block.                                  *)
(***************************************************************************)
C13_FieldsOfOneBlock ==
    kind = "orbital" =>
        /\ \A i \in 1..Len(out) :
               \E p \in 1..Len(input) : HeldFrom(input, p, 4, out[i])
        /\ LinesHeld(state) > 0 =>
               \E p \in 1..Len(input) : HeldFrom(input, p, LinesHeld(state), state)

(***************************************************************************)
(* The transitions of the two state machines.                              *)
(***************************************************************************)
\* s -> t is a transition of the state machine of the parser k
Transition(k, s, t) ==
    IF k = "vector"
    THEN \/ s = "WaitingForSoe" /\ t = "WaitingForDate"
         \/ s = "WaitingForDate" /\ t \in {"WaitingForPosition", "End"}
         \/ s = "WaitingForPosition" /\ t = "Position"
         \/ s = "Position" /\ t = "Complete"
         \/ s = "Complete" /\ t = "WaitingForDate"
    ELSE \/ s = "WaitingForSoe" /\ t = "WaitingForDate"
         \/ s = "WaitingForDate" /\ t \in {"WaitingForEccentricityAndInclination", "End"}
         \/ s = "WaitingForEccentricityAndInclination" /\ t = "EccentricityAndInclination"
         \/ s = "EccentricityAndInclination" /\ t = "AddedAscendingNodeAndPericfocus"
         \/ s = "AddedAscendingNodeAndPericfocus" /\ t = "AddedMeanAnomaly"
         \/ s = "AddedMeanAnomaly" /\ t = "WaitingForDate"

(***************************************************************************)
(* C14: either parser starts in WaitingForSoe, and every change of its     *)
(* state is one of the                                                     *)
(* transitions WaitingForSoe -> WaitingForDate, WaitingForDate -> first    *)
(* field state or End, each field state -> the next one, last field state  *)
(* (Complete in the vector parser) -> WaitingForDate; no step returns to   *)
(* WaitingForSoe and no step leaves End.                                   *)
(***************************************************************************)
C14_TransitionsOnly ==
    /\ state = WaitingForSoe
    /\ [][/\ state' # state => Transition(kind, state.tag, state'.tag)
          /\ state # WaitingForSoe => state' # WaitingForSoe
          /\ state = End => state' = End]_vars

\* the vector parser has gone round the cycle once and has left it for End
C14_Witness ==
    /\ kind = "vector"
    /\ state = End
    /\ Len(out) = 1
    /\ entry.state = WaitingForDate

(***************************************************************************)
(* The lines one call of next() has pulled.                                *)
(***************************************************************************)
\* number of lines the running or the last call has pulled
PulledInCall == pos - entry.pos

\* the first tags of the field lines of a block, in order; the third line of
\* a vector block is free
FieldLineTags(k) ==
    IF k = "vector" THEN <<TagX, TagVX>> ELSE <<TagEC, TagOM, TagN, TagA>>

\* the BlockLen(k) lines up to line p are a line that is not the end marker
\* and then lines that begin with the tags of the field lines
BlockEndsAt(k, inp, p) ==
    /\ p >= BlockLen(k)
    /\ inp[p - BlockLen(k) + 1] # EOE
    /\ \A i \in 1..Len(FieldLineTags(k)) :
           BeginsWith(inp[p - BlockLen(k) + 1 + i], FieldLineTags(k)[i])

(***************************************************************************)
(* C15: a call of next() that was entered in WaitingForDate and has        *)
(* returned an item has pulled exactly the lines of one block: one date    *)
(* line and then three lines (vector: position, velocity and one more) or  *)
(* four lines (orbital elements), neither fewer nor more.  The first call, *)
(* entered in WaitingForSoe, has pulled the lines up to the start marker   *)
(* and then exactly the lines of one block.                                *)
(***************************************************************************)
C15_PullRatio ==
    (pc = "idle" /\ ret.res = "Some") =>
        /\ entry.state = WaitingForDate =>
               /\ PulledInCall = BlockLen(kind)
               /\ BlockEndsAt(kind, input, pos)
        /\ entry.state = WaitingForSoe =>
               /\ PulledInCall = FirstSoe(input) - entry.pos + BlockLen(kind)
               /\ BlockEndsAt(kind, input, pos)

\* the second call of the orbital-elements parser has returned the second
\* item after five lines
C15_Witness ==
    /\ kind = "orbital"
    /\ pc = "idle"
    /\ ret.res = "Some"
    /\ entry.state = WaitingForDate
    /\ PulledInCall = 5
    /\ Len(out) = 2

(***************************************************************************)
(* C16: a step pulls at most one line, the one behind the last line        *)
(* pulled, and only inside a call; the state changes only in a step that   *)
(* pulls a line; a call that finds the input drained returns None and      *)
(* leaves the state and the items as they are.                             *)
(***************************************************************************)
C16_OneStepPerLine ==
    [][/\ pos' \in {pos, pos + 1}
       /\ pos' = pos + 1 => (pc = "loop" /\ pos < Len(input))
       /\ state' # state => pos' = pos + 1
       /\ (pc = "loop" /\ pos = Len(input)) =>
              /\ state' = state
              /\ out' = out
              /\ pc' = "idle"
              /\ ret'.res = "None"]_vars

\* the orbital-elements report ended behind the second field line of a
\* block; the call has returned None and the state still holds four fields
C16_Witness ==
    /\ kind = "orbital"
    /\ Exhausted
    /\ pos = Len(input)
    /\ entry.pos = pos
    /\ state.tag = "AddedAscendingNodeAndPericfocus"

(***************************************************************************)
(* C17: what stands before the first start marker does not reach the       *)
(* output: for lines P without a start marker (an end marker, field lines  *)
(* or malformed lines among them) and any rest R, well-formed or not, the  *)
(* parser over ["$$SOE"] ++ R, iterated until None, yields the same items  *)
(* as the parser over P ++ ["$$SOE"] ++ R did.                             *)
(***************************************************************************)
C17_PreambleIgnored ==
    (earlier.run = "preamble" /\ Exhausted) => out = earlier.out

\* behind an end marker and a field line the report had a faulty block and
\* a good one; both parsers failed on the first and emitted the second
C17_Witness ==
    /\ earlier.run = "preamble"
    /\ Exhausted
    /\ input \in FaultyInputs(kind)
    /\ Len(earlier.out) = 1
    /\ out = earlier.out

(***************************************************************************)
(* C18: a call that fails with a tag mismatch or a numeric-parse failure   *)
(* has pulled one line and leaves the state of the parser as it was before *)
(* that line was pulled, in every field-parsing state of both parsers, the *)
(* state for the last line of an orbital-elements block included.          *)
(***************************************************************************)
C18_FailureKeepsState ==
    [][(pc = "loop" /\ pc' = "idle" /\ ret'.res \in {"TagMismatch", "NumericFormat"}) =>
           (state' = state /\ pos' = pos + 1)]_vars

(***************************************************************************)
(* A parser whose calls run on and whose consumer goes on calling next().  *)
(***************************************************************************)
\* a loop iteration pulls the next line, whatever the arm does with it
PullsLine ==
    /\ pc = "loop"
    /\ pos < Len(input)
    /\ pos' = pos + 1

\* the consumer calls again, a call that finds the input drained returns,
\* and a call that finds a line pulls it
FairSpec == Spec /\ WF_vars(Call) /\ WF_vars(Drained) /\ WF_pos(PullsLine)

(***************************************************************************)
(* C19: never more lines are pulled than the input has; a step pulls at    *)
(* most the one line behind the last line pulled, so that no line is       *)
(* pulled twice or out of order; every call of next() returns; and a       *)
(* consumer that goes on calling next() is returned None.                  *)
(***************************************************************************)
C19_Terminates ==
    /\ [](pos <= Len(input))
    /\ [][pos' \in {pos, pos + 1}]_vars
    /\ [](pc = "loop" => <>(pc = "idle"))
    /\ <>Exhausted

\* the vector parser has pulled all fourteen lines of a report of two
\* blocks and has returned None
C19_Witness ==
    /\ kind = "vector"
    /\ Exhausted
    /\ Len(out) = 2
    /\ Len(input) > 2 * BlockLen(kind) + 2
    /\ pos = Len(input)
====
